---- MODULE Spec2Model ----
(***************************************************************************)
(* Federation core of Themis: group inbox/outbox dispatch, user outbox     *)
(* dispatch, follower bookkeeping, activity storage and post deletion.     *)
(*                                                                         *)
(* Every request is an async function; between two awaits its code runs    *)
(* without interruption, so a handler step below is one storage call       *)
(* together with the synchronous code that follows it up to the next       *)
(* storage call.  Reads of the (static) group and user tables are folded   *)
(* into the step that follows them.                                        *)
(***************************************************************************)
EXTENDS Integers, Sequences, FiniteSets, TLC

\* ------------------------------------------------------------------ bounds
MaxActivities == 3
MaxPosts == 1
MaxReplies == 1
MaxActors == 2
MaxItems == 5
MaxPageSize == 3
MaxPage == 3

\* ------------------------------------------------------------ populations
Users == {1, 2, 3}
LocalUsers == {1}
Groups == {1, 2}
Handlers == {"h1", "h2"}

KnownTypes ==
    {"Create", "Delete", "Follow", "Accept", "Reject", "Like",
     "Update", "Add", "Remove", "Block", "Undo"}
UnknownTypes == {"Foo"}
InboxTypes == {"Create", "Follow", "Update", "Foo"}

\* ------------------------------------------------------------------- URIs
NoUri == [kind |-> "none", n |-> 0, path |-> ""]
UserUri(u) == [kind |-> "user", n |-> u, path |-> ""]
GroupUri(g) == [kind |-> "group", n |-> g, path |-> ""]
InboxOf(uri) == [uri EXCEPT !.path = "inbox"]
FollowersOf(uri) == [uri EXCEPT !.path = "followers"]
uriFromUuid(uuid) == [kind |-> "post", n |-> uuid, path |-> ""]
LocalActivityUri(n) == [kind |-> "activity", n |-> n, path |-> ""]
ExternalUris == {[kind |-> "ext", n |-> 1, path |-> ""]}
UnknownPostUri == [kind |-> "post", n |-> 0, path |-> ""]

\* ---------------------------------------------------------------- servers
NoPort == 0
LocalServer == [scheme |-> "http", host |-> "local", port |-> 3000]
Servers ==
    {LocalServer,
     [scheme |-> "http", host |-> "peer1", port |-> 3000],
     [scheme |-> "https", host |-> "peer2", port |-> NoPort]}

\* --------------------------------------------------------------- payloads
NoPayload ==
    [id |-> NoUri, type |-> "", actor |-> NoUri, object |-> NoUri,
     target |-> NoUri, audKind |-> "absent", audience |-> <<>>,
     content |-> ""]
Payload(id, type, actor, object, target, audKind) ==
    [id |-> id, type |-> type, actor |-> actor, object |-> object,
     target |-> target, audKind |-> audKind, audience |-> <<>>,
     content |-> ""]

NoActivity ==
    [rowId |-> 0, uri |-> NoUri, type |-> "", sourceUser |-> NoUri,
     sourceGroup |-> 0, targetUser |-> 0, targetPost |-> 0,
     destinationGroups |-> <<>>, destinationUsers |-> <<>>,
     activityObject |-> NoPayload]

\* What a request came to: the operation, the type it dispatched on, the
\* outcome (ok or the exception), the type named in the exception's message,
\* the value returned, the owning actor, the post or user it was about, and
\* the call of the delivery capability it made, if any.
NoDelivery ==
    [called |-> FALSE, followers |-> {}, targets |-> {}, settled |-> FALSE,
     attempted |-> {}, failed |-> {}]
NoResult ==
    [op |-> "", type |-> "", kind |-> "", msg |-> "", ret |-> "",
     owner |-> 0, subject |-> 0, flag |-> FALSE, delivery |-> NoDelivery]
Result(op, type, kind, msg, ret, owner, subject, flag) ==
    [op |-> op, type |-> type, kind |-> kind, msg |-> msg, ret |-> ret,
     owner |-> owner, subject |-> subject, flag |-> flag,
     delivery |-> NoDelivery]
Delivered(result, followingUsers, targets) ==
    [result EXCEPT !.delivery =
        [called |-> TRUE, followers |-> followingUsers, targets |-> targets,
         settled |-> FALSE, attempted |-> {}, failed |-> {}]]

deliverToAttempts_AbortsOnFailure(targets, failing) ==
    IF failing = {} THEN targets ELSE failing

\* ActivityService.deliverTo(activity, targets): every target is attempted on
\* its own, whichever of them fail.
deliverToAttempts(targets, failing) == targets

\* The call of deliverTo settled: the targets attempted and those that failed.
Settled(result, failing) ==
    [result EXCEPT
        !.delivery.settled = TRUE,
        !.delivery.attempted = deliverToAttempts(result.delivery.targets, failing),
        !.delivery.failed = failing]

NoRequest == [op |-> "", group |-> 0, data |-> NoPayload]

VARIABLES
    activities,      \* Activity table: sequence of rows, row id = index
    posts,           \* Post table: set of rows
    nextUuid,        \* uuids handed out so far
    followers,       \* group -> set of user ids (followingUsers relation)
    liked,           \* user -> sequence of post uuids (liked relation)
    pc,              \* handler -> position in its request
    request,         \* handler -> the inbox/outbox request it is (or was last) serving
    activityEntity,  \* handler -> the Activity entity it holds in memory
    fullGroup,       \* handler -> followingUsers array loaded by addFollower
    wasFollower,     \* handler -> the user was a follower when loaded
    accept,          \* handler -> Accept payload being dispatched
    lastOp,          \* handler -> outcome of the last request it completed
    userRepository,  \* User table: set of rows
    groupRepository, \* Group table: set of rows
    lastId,          \* table -> the last id its id column handed out
    resolved,        \* outcome of the last call of an actor service
    collection,      \* the last Collection built, and what it was built from
    finding          \* handler -> the actor it looked up and is about to create

vars ==
    <<activities, posts, nextUuid, followers, liked, pc, request,
      activityEntity, fullGroup, wasFollower, accept, lastOp,
      userRepository, groupRepository, lastId, resolved, collection, finding>>

storeVars == <<activities, posts, nextUuid, followers, liked>>
handlerVars == <<pc, request, activityEntity, fullGroup, wasFollower, accept>>
actorVars == <<userRepository, groupRepository, lastId, resolved>>

\* ------------------------------------------------------------ sequences
Range(s) == {s[i] : i \in DOMAIN s}
Count(s, x) == Cardinality({i \in DOMAIN s : s[i] = x})

RECURSIVE Dedup(_)
Dedup(s) ==
    IF s = <<>> THEN <<>>
    ELSE LET front == Dedup(SubSeq(s, 1, Len(s) - 1))
             last == s[Len(s)]
         IN IF last \in Range(front) THEN front ELSE Append(front, last)

\* ------------------------------------------------------- ActivityService
\* findByUri(uri): the stored Activity with that uri, or none.
findByUri(uri) ==
    IF uri # NoUri /\ \E i \in DOMAIN activities : activities[i].uri = uri
    THEN LET i == CHOOSE j \in DOMAIN activities : activities[j].uri = uri
         IN activities[i]
    ELSE NoActivity

\* create(payload): an unsaved Activity shell: no uri, no destinations yet.
create(data) ==
    [NoActivity EXCEPT !.type = data.type, !.sourceUser = data.actor,
                       !.activityObject = data]

\* Destinations already stored are kept; new ones are appended once each.
MergeDestinations(stored, given) == Dedup(stored \o given)

\* The row an entity is written to: its own row when it has a persisted
\* identity, else the row the unique uri constraint makes it collide with,
\* else 0 (a new row).
SaveRow(entity) ==
    IF entity.rowId # 0 THEN entity.rowId
    ELSE IF entity.activityObject.id # NoUri
            /\ \E i \in DOMAIN activities :
                   activities[i].uri = entity.activityObject.id
         THEN CHOOSE i \in DOMAIN activities :
                   activities[i].uri = entity.activityObject.id
         ELSE 0

\* save(entity): upsert.  The table after the save.
SavedTable(entity) ==
    LET r == SaveRow(entity) IN
    IF r # 0
    THEN [activities EXCEPT
            ![r].destinationGroups =
                MergeDestinations(@, entity.destinationGroups),
            ![r].activityObject = entity.activityObject]
    ELSE LET n == Len(activities) + 1 IN
         Append(activities,
            [entity EXCEPT
                !.rowId = n,
                !.uri = IF entity.activityObject.id # NoUri
                        THEN entity.activityObject.id
                        ELSE LocalActivityUri(n),
                !.destinationGroups = Dedup(entity.destinationGroups)])

\* save(entity): the Activity it returns (the stored row).
Saved(entity) ==
    LET r == SaveRow(entity) IN
    SavedTable(entity)[IF r # 0 THEN r ELSE Len(activities) + 1]

CanSave(entity) == SaveRow(entity) # 0 \/ Len(activities) < MaxActivities

\* createAcceptActivity(actor, object, target)
createAcceptActivity(actor, object, target) ==
    Payload(NoUri, "Accept", actor, object, target, "absent")

\* ------------------------------------------------------------ GroupService
\* Entities come out of the repository as fresh objects: each load gives
\* objects with identities (ref) no earlier object has.
LoadedUser(u) == [ref |-> "user", id |-> u]
LoadedFollowers(g) == {[ref |-> "follower", id |-> u] : u \in followers[g]}

\* Array.prototype.includes: identity of the object, not of the row.
Includes(arr, obj) == obj \in arr

SavedFollowers_DropsLoaded(arr) == {e.id : e \in {x \in arr : x.ref = "user"}}

\* groupRepository.save(fullGroup): the relation holds the rows the array
\* names, one junction row for each.
SavedFollowers(arr) == {e.id : e \in arr}

\* --------------------------------------------------------------- requests
\* A request completes: its handler is free again and keeps only the
\* request it served.
Finish(h, result) ==
    /\ pc' = [pc EXCEPT ![h] = "idle"]
    /\ activityEntity' = [activityEntity EXCEPT ![h] = NoActivity]
    /\ fullGroup' = [fullGroup EXCEPT ![h] = {}]
    /\ wasFollower' = [wasFollower EXCEPT ![h] = FALSE]
    /\ accept' = [accept EXCEPT ![h] = NoPayload]
    /\ lastOp' = [lastOp EXCEPT ![h] = result]

StoredUris == {activities[i].uri : i \in DOMAIN activities}
PublishedUris ==
    {activities[i].uri : i \in {j \in DOMAIN activities :
                                   activities[j].type = "Create"}}

\* The payloads a peer can put into a group's inbox: activities of its own
\* (external ids) and the activities local users have published.
InboxPayloads ==
    {Payload(id, "Create", UserUri(1), NoUri, NoUri, k) :
        id \in ExternalUris \cup PublishedUris,
        k \in {"absent", "array", "scalar"}}
    \cup {Payload(id, "Follow", UserUri(u), NoUri, NoUri, "absent") :
        id \in ExternalUris, u \in Users}
    \cup {Payload(id, t, UserUri(1), NoUri, NoUri, "absent") :
        id \in ExternalUris, t \in InboxTypes \ {"Create", "Follow"}}

\* The table has room for n more rows.
Room(n) == Len(activities) + n <= MaxActivities

\* ------------------------------------------- ApGroupService.handleIncoming
\* Lines 111-118: find or create the entity and add the receiving group.
FoundOrCreated(data) ==
    IF findByUri(data.id) # NoActivity THEN findByUri(data.id) ELSE create(data)

PushGroup_Forgets(entity, g) == entity

PushGroup(entity, g) ==
    [entity EXCEPT !.destinationGroups = Append(@, g)]

\* Lines 129-135: the audience of the payload gets the group's followers
\* collection.
StampAudience(data, g) ==
    [data EXCEPT !.audKind = "array",
                 !.audience = Append(@, FollowersOf(GroupUri(g)))]

\* Lines 121-140, the entity handed to save for a Create already stored.
CreateEntity(entity, data, g) ==
    [PushGroup(entity, g) EXCEPT !.activityObject = StampAudience(data, g)]

\* Line 166-168: the type is none the inbox handles.
InboxDefault(g, data) ==
    Result("handleIncoming", data.type, "NotImplemented", "", "", g, 0, FALSE)

Unsaved_Flushed(entity) == SavedTable(entity)

\* Lines 113-136: the group is pushed onto the entity in memory, and nothing
\* hands the entity to save before the dispatch on the type: the table is as
\* it was.
Unsaved(entity) == activities

handleIncoming(h, g, data) ==
    /\ pc[h] = "idle"
    /\ UNCHANGED <<actorVars, collection, finding>>
    /\ request' = [request EXCEPT ![h] = [op |-> "inbox", group |-> g, data |-> data]]
    /\ LET entity == PushGroup(FoundOrCreated(data), g) IN
       CASE data.type = "Create" /\ entity.uri # NoUri /\ data.audKind # "scalar" ->
               /\ pc' = [pc EXCEPT ![h] = "saveCreate"]
               /\ activityEntity' =
                      [activityEntity EXCEPT ![h] = CreateEntity(entity, data, g)]
               /\ UNCHANGED <<fullGroup, wasFollower, accept, lastOp>>
         [] data.type = "Create" /\ entity.uri # NoUri /\ data.audKind = "scalar" ->
               Finish(h, Result("handleIncoming", "Create", "BadRequest", "", "",
                                g, 0, FALSE))
         [] data.type = "Create" /\ entity.uri = NoUri ->
               Finish(h, Result("handleIncoming", "Create", "ok", "", "undefined",
                                g, 0, FALSE))
         [] data.type = "Follow" ->
               /\ Room(IF entity.uri # NoUri THEN 1 ELSE 2)
               /\ pc' = [pc EXCEPT ![h] = "saveFollow"]
               /\ activityEntity' = [activityEntity EXCEPT ![h] = entity]
               /\ UNCHANGED <<fullGroup, wasFollower, accept, lastOp>>
         [] OTHER -> Finish(h, InboxDefault(g, data))
    /\ activities' = Unsaved(PushGroup(FoundOrCreated(data), g))
    /\ UNCHANGED <<posts, nextUuid, followers, liked>>

\* Line 139: save of the stamped Create.
saveCreate(h) ==
    /\ pc[h] = "saveCreate"
    /\ UNCHANGED <<actorVars, collection, finding>>
    /\ activities' = SavedTable(activityEntity[h])
    /\ activityEntity' = [activityEntity EXCEPT ![h] = Saved(activityEntity[h])]
    /\ pc' = [pc EXCEPT ![h] = "deliverToFollowers"]
    /\ UNCHANGED <<posts, nextUuid, followers, liked, request, fullGroup,
                   wasFollower, accept, lastOp>>

\* Lines 270-272: the uris of the followers other than the sender.
urisWithoutSender(followingUsers, activity) ==
    LET kept == {u \in followingUsers : UserUri(u) # activity.sourceUser}
    IN {UserUri(u) : u \in kept}

\* Lines 267-281.  An Activity without sourceUser makes the filter throw.
\* deliverTo is called and not awaited (line 275): the activity is returned
\* while the deliveries are still under way.
deliverToFollowers(h) ==
    /\ pc[h] = "deliverToFollowers"
    /\ UNCHANGED <<actorVars, collection, finding>>
    /\ LET g == request[h].group
           activity == activityEntity[h] IN
       IF activity.sourceUser = NoUri
       THEN Finish(h, Result("handleIncoming", "Create", "TypeError", "", "",
                             g, 0, FALSE))
       ELSE Finish(h, Delivered(
                Result("handleIncoming", "Create", "ok", "", "activity",
                       g, activity.sourceUser.n, FALSE),
                followers[g], urisWithoutSender(followers[g], activity)))
    /\ UNCHANGED <<storeVars, request>>

\* The promise of the deliverTo call of line 275 settles: every delivery has
\* succeeded or failed (failing).  Nobody holds the promise, so nothing but
\* the deliveries themselves comes of it.
deliverToSettles(h, failing) ==
    /\ lastOp[h].op = "handleIncoming"
    /\ lastOp[h].delivery.called
    /\ ~lastOp[h].delivery.settled
    /\ failing \subseteq lastOp[h].delivery.targets
    /\ lastOp' = [lastOp EXCEPT ![h] = Settled(@, failing)]
    /\ UNCHANGED <<storeVars, handlerVars, actorVars, collection, finding>>

\* Line 149: save of the Follow.
saveFollow(h) ==
    /\ pc[h] = "saveFollow"
    /\ UNCHANGED <<actorVars, collection, finding>>
    /\ CanSave(activityEntity[h])
    /\ activities' = SavedTable(activityEntity[h])
    /\ activityEntity' = [activityEntity EXCEPT ![h] = Saved(activityEntity[h])]
    /\ pc' = [pc EXCEPT ![h] = "addFollower"]
    /\ UNCHANGED <<posts, nextUuid, followers, liked, request, fullGroup,
                   wasFollower, accept, lastOp>>

\* GroupService.addFollower, lines 215-224: load the group with its
\* followers and look for the user in the array.
addFollower(h) ==
    /\ pc[h] = "addFollower"
    /\ UNCHANGED <<actorVars, collection, finding>>
    /\ LET g == request[h].group
           u == request[h].data.actor.n
           followingUsers == LoadedFollowers(g)
           user == LoadedUser(u) IN
       IF ~Includes(followingUsers, user)
       THEN /\ fullGroup' = [fullGroup EXCEPT ![h] = followingUsers \cup {user}]
            /\ wasFollower' = [wasFollower EXCEPT ![h] = u \in followers[g]]
            /\ pc' = [pc EXCEPT ![h] = "saveFollowers"]
            /\ UNCHANGED <<activityEntity, accept, lastOp>>
       ELSE Finish(h, Result("handleIncoming", "Follow", "ok", "", "false",
                             g, u, TRUE))
    /\ UNCHANGED <<storeVars, request>>

\* GroupService.addFollower, lines 226-227, then handleIncoming lines
\* 152-160: the follower is saved and the Accept is built.
saveFollowers(h) ==
    /\ pc[h] = "saveFollowers"
    /\ UNCHANGED <<actorVars, collection, finding>>
    /\ LET g == request[h].group
           u == request[h].data.actor.n IN
       /\ followers' = [followers EXCEPT ![g] = SavedFollowers(fullGroup[h])]
       /\ accept' = [accept EXCEPT ![h] =
              createAcceptActivity(GroupUri(g), request[h].data.id, UserUri(u))]
    /\ pc' = [pc EXCEPT ![h] = "findRequest"]
    /\ UNCHANGED <<activities, posts, nextUuid, liked, request, activityEntity,
                   fullGroup, wasFollower, lastOp>>

\* ----------------------------------------- ApGroupService.acceptPostRequest
OutboxOp(h) == IF request[h].op = "inbox" THEN "handleIncoming" ELSE "groupOutbox"
OutboxType(h) == IF request[h].op = "inbox" THEN "Follow" ELSE accept[h].type
OutboxUser(h) == IF request[h].op = "inbox" THEN request[h].data.actor.n ELSE 0

\* Lines 77-89: the types the group's outbox does not handle.
OutboxDefault(g, data) ==
    IF data.type \in KnownTypes
    THEN Result("groupOutbox", data.type, "ImATeapot", "", "", g, 0, FALSE)
    ELSE Result("groupOutbox", data.type, "BadRequest", data.type, "", g, 0, FALSE)

\* The payloads a client can put into a group's outbox.
OutboxPayloads ==
    {Payload(NoUri, t, NoUri, NoUri, NoUri, "absent") :
        t \in (KnownTypes \cup UnknownTypes) \ {"Accept"}}
    \cup {Payload(NoUri, "Accept", NoUri, id, UserUri(u), "absent") :
        id \in ExternalUris, u \in Users}

\* Lines 46-55: a POST to the group's outbox.
acceptPostRequest(h, g, data) ==
    /\ pc[h] = "idle"
    /\ UNCHANGED <<actorVars, collection, finding>>
    /\ request' = [request EXCEPT ![h] = [op |-> "outbox", group |-> g, data |-> data]]
    /\ IF data.type = "Accept"
       THEN /\ Room(1)
            /\ accept' = [accept EXCEPT ![h] = data]
            /\ pc' = [pc EXCEPT ![h] = "findRequest"]
            /\ UNCHANGED <<activityEntity, fullGroup, wasFollower, lastOp>>
       ELSE Finish(h, OutboxDefault(g, data))
    /\ UNCHANGED storeVars

acceptEntity_FromRequester(g, toAccept, activity) ==
    [NoActivity EXCEPT
        !.sourceGroup = g,
        !.sourceUser = toAccept,
        !.destinationUsers = <<toAccept>>,
        !.type = activity.type,
        !.activityObject = activity]

\* Lines 60-65: the entity of the Accept, issued by the group.
acceptEntity(g, toAccept, activity) ==
    [NoActivity EXCEPT
        !.sourceGroup = g,
        !.destinationUsers = <<toAccept>>,
        !.type = activity.type,
        !.activityObject = activity]

\* Lines 57-65: the Follow the Accept answers, and the entity of the Accept.
findRequest(h) ==
    /\ pc[h] = "findRequest"
    /\ UNCHANGED <<actorVars, collection, finding>>
    /\ LET g == request[h].group
           found == findByUri(accept[h].object) IN
       IF found = NoActivity
       THEN Finish(h, Result(OutboxOp(h), OutboxType(h), "TypeError", "", "",
                             g, OutboxUser(h), wasFollower[h]))
       ELSE /\ activityEntity' = [activityEntity EXCEPT ![h] =
                   acceptEntity(g, found.sourceUser, accept[h])]
            /\ pc' = [pc EXCEPT ![h] = "saveAccept"]
            /\ UNCHANGED <<fullGroup, wasFollower, accept, lastOp>>
    /\ UNCHANGED <<storeVars, request>>

\* Line 67: save of the Accept.
saveAccept(h) ==
    /\ pc[h] = "saveAccept"
    /\ UNCHANGED <<actorVars, collection, finding>>
    /\ CanSave(activityEntity[h])
    /\ activities' = SavedTable(activityEntity[h])
    /\ activityEntity' = [activityEntity EXCEPT ![h] = Saved(activityEntity[h])]
    /\ pc' = [pc EXCEPT ![h] = "deliverTo"]
    /\ UNCHANGED <<posts, nextUuid, followers, liked, request, fullGroup,
                   wasFollower, accept, lastOp>>

deliveryOutcome_Swallowed(delivered) == "ok"

\* Lines 69-75: the delivery is awaited; what it rejects with is caught and
\* handed on to the caller as the rejection of the dispatch.
deliveryOutcome(delivered) == IF delivered THEN "ok" ELSE "DeliveryError"

\* Lines 69-75: delivery of the Accept to the target its payload names;
\* the delivery succeeds or fails.
deliverTo(h, delivered) ==
    /\ pc[h] = "deliverTo"
    /\ UNCHANGED <<actorVars, collection, finding>>
    /\ Finish(h, Settled(Delivered(
           Result(OutboxOp(h), OutboxType(h),
                  deliveryOutcome(delivered), "",
                  IF deliveryOutcome(delivered) = "ok" THEN "payload" ELSE "",
                  request[h].group, OutboxUser(h), wasFollower[h]),
           {}, {activityEntity[h].activityObject.target}),
           IF delivered THEN {} ELSE {activityEntity[h].activityObject.target}))
    /\ UNCHANGED <<storeVars, request>>

\* ------------------------------------------------------------ PostService
NoPost ==
    [uuid |-> 0, uri |-> NoUri, server |-> LocalServer, sender |-> 0,
     deleted |-> FALSE, parent |-> 0]
PostUris == {p.uri : p \in posts} \ {NoUri}
PostByUri(uri) == CHOOSE p \in posts : p.uri = uri
Uuids == {p.uuid : p \in posts}

\* A request served in one step completes.
RespondTo(h, req, result) ==
    /\ pc[h] = "idle"
    /\ UNCHANGED <<actorVars, collection, finding>>
    /\ lastOp' = [lastOp EXCEPT ![h] = result]
    /\ request' = [request EXCEPT ![h] = req]
    /\ UNCHANGED <<pc, activityEntity, fullGroup, wasFollower, accept>>

\* ... and so does a call of a service.
Respond(h, result) == RespondTo(h, NoRequest, result)

isLocalPost_AnyHost(post) ==
    /\ LocalServer.scheme = post.server.scheme
    /\ (LocalServer.port = post.server.port \/ post.server.port = NoPort)

\* Lines 674-681.
isLocalPost(post) ==
    /\ LocalServer.host = post.server.host
    /\ LocalServer.scheme = post.server.scheme
    /\ (LocalServer.port = post.server.port \/ post.server.port = NoPort)

softDelete_KeepsFlag(post) == posts

softDelete_Purges(post) == posts \ {post}

\* Lines 539-547: the table after softDelete(post), when the post is local.
softDelete(post) ==
    (posts \ {post}) \cup {[post EXCEPT !.deleted = TRUE]}

\* Lines 266-270: the table after delete(uuid).
delete(uuid) == {p \in posts : p.uuid # uuid}

\* Lines 89-111: PostService.create, the post goes to the server the DTO names.
PostCreate(h, u, server) ==
    /\ nextUuid < MaxPosts
    /\ nextUuid' = nextUuid + 1
    /\ posts' = posts \cup
           {[uuid |-> nextUuid + 1, uri |-> NoUri, server |-> server,
             sender |-> u, deleted |-> FALSE, parent |-> 0]}
    /\ Respond(h, Result("create", "", "ok", "", "post", u, nextUuid + 1,
                         server = LocalServer))
    /\ UNCHANGED <<activities, followers, liked>>

\* PostService.softDelete called on a stored post.
PostSoftDelete(h, post) ==
    /\ post \in posts
    /\ IF isLocalPost(post)
       THEN /\ posts' = softDelete(post)
            /\ Respond(h, Result("softDelete", "", "ok", "", "post", 0,
                                 post.uuid, post.server = LocalServer))
       ELSE /\ posts' = posts
            /\ Respond(h, Result("softDelete", "", "BadRequest",
                                 "Can't delete a non-local post", "", 0,
                                 post.uuid, post.server = LocalServer))
    /\ UNCHANGED <<activities, nextUuid, followers, liked>>

\* PostService.delete called with the uuid of a stored post.
PostDelete(h, uuid) ==
    /\ uuid \in Uuids
    /\ posts' = delete(uuid)
    /\ Respond(h, Result("delete", "", "ok", "", "post", 0, uuid, FALSE))
    /\ UNCHANGED <<activities, nextUuid, followers, liked>>

\* ------------------------------------------ ApUserService.acceptPostRequest
\* The bodies a client can post to a user's outbox: activities (no content)
\* and bare objects (content).
UserPayloads(u) ==
    {Payload(NoUri, t, UserUri(u), obj, NoUri, "absent") :
        t \in KnownTypes \cup UnknownTypes,
        obj \in PostUris \cup {UnknownPostUri}}
    \cup {[Payload(NoUri, t, UserUri(u), NoUri, NoUri, "absent")
              EXCEPT !.content = "text"] : t \in {"Note", "Foo"}}

\* activityFromObject(data, user): the Create that wraps a bare object.
activityFromObject(data, u) ==
    Payload(NoUri, "Create", UserUri(u), data.id, NoUri, "absent")

Dispatched_NoWrap(data, u) == data

\* Lines 70-72.
Dispatched(data, u) ==
    IF data.content = "" THEN data ELSE activityFromObject(data, u)

\* Lines 75-118: the types the user's outbox handles with an effect on the
\* store; every other type throws.
UserEffectfulTypes == {"Create", "Delete", "Like"}

\* Lines 78-83, 91-96, 110-115: the entity the user's outbox saves.
UserEntity(u, uuid, activity) ==
    [NoActivity EXCEPT !.targetUser = u, !.targetPost = uuid,
                       !.type = activity.type, !.activityObject = activity]

UserDefault_NotImplemented(u, activity) ==
    Result("userOutbox", activity.type, "NotImplemented", "", "", u, 0, FALSE)

\* Lines 102-106, 119-123: the types that fall through to an exception.
UserDefault(u, activity) ==
    IF activity.type \in {"Update", "Follow", "Add", "Remove", "Block", "Undo"}
    THEN Result("userOutbox", activity.type, "NotImplemented", "", "", u, 0, FALSE)
    ELSE Result("userOutbox", activity.type, "BadRequest", activity.type, "",
                u, 0, FALSE)

addLike_Overwrites(u, post) == <<post.uuid>>

\* UserService.addLike, lines 120-125: the liked relation of the user after
\* the post is pushed onto it and the user is saved.
addLike(u, post) == Append(liked[u], post.uuid)

UserOutbox(h, u, data) ==
    LET activity == Dispatched(data, u)
        entity(uuid) == UserEntity(u, uuid, activity)
        bare == data.content # ""
        served == [op |-> "userOutbox", group |-> 0, data |-> data]
        done(uuid) == Result("userOutbox", activity.type, "ok", "", "payload",
                             u, uuid, bare)
        failed(kind, msg, uuid) ==
            Result("userOutbox", activity.type, kind, msg, "", u, uuid, bare)
    IN
    CASE activity.type = "Create" ->
           /\ nextUuid < MaxPosts
           /\ CanSave(entity(nextUuid + 1))
           /\ nextUuid' = nextUuid + 1
           /\ posts' = posts \cup
                  {[uuid |-> nextUuid + 1, uri |-> uriFromUuid(nextUuid + 1),
                    server |-> LocalServer, sender |-> u, deleted |-> FALSE,
                    parent |-> 0]}
           /\ activities' = SavedTable(entity(nextUuid + 1))
           /\ RespondTo(h, served, done(nextUuid + 1))
           /\ UNCHANGED <<followers, liked>>
      [] activity.type = "Delete" /\ activity.object \notin PostUris ->
           /\ RespondTo(h, served, failed("NotFound", "", 0))
           /\ UNCHANGED storeVars
      [] activity.type = "Delete" /\ activity.object \in PostUris ->
           LET post == PostByUri(activity.object) IN
           IF isLocalPost(post)
           THEN /\ CanSave(entity(post.uuid))
                /\ posts' = softDelete(post)
                /\ activities' = SavedTable(entity(post.uuid))
                /\ RespondTo(h, served, done(post.uuid))
                /\ UNCHANGED <<nextUuid, followers, liked>>
           ELSE /\ RespondTo(h, served, failed("BadRequest",
                                     "Can't delete a non-local post", post.uuid))
                /\ UNCHANGED storeVars
      [] activity.type = "Like" /\ activity.object \notin PostUris ->
           /\ RespondTo(h, served, failed("NotFound", "", 0))
           /\ UNCHANGED storeVars
      [] activity.type = "Like" /\ activity.object \in PostUris ->
           LET post == PostByUri(activity.object) IN
           /\ CanSave(entity(post.uuid))
           /\ liked' = [liked EXCEPT ![u] = addLike(u, post)]
           /\ activities' = SavedTable(entity(post.uuid))
           /\ RespondTo(h, served, done(post.uuid))
           /\ UNCHANGED <<posts, nextUuid, followers>>
      [] OTHER ->
           /\ RespondTo(h, served, [UserDefault(u, activity) EXCEPT !.flag = bare])
           /\ UNCHANGED storeVars

\* ------------------------------------------------ UserService, GroupService
\* The names and the servers the actor DTOs carry.
ActorNames == {"a"}
ActorServers == {server \in Servers : server.scheme = LocalServer.scheme}

NoId == [scheme |-> "", host |-> "", port |-> NoPort, type |-> "", name |-> ""]
NoActor ==
    [id |-> 0, name |-> "", server |-> LocalServer, uri |-> NoId, actor |-> NoId,
     displayName |-> "", summary |-> "", icon |-> ""]

\* getIdForActor(entity, type): the uri derived from the server, the type and
\* the name of the entity.
getIdForActor(entity, type) ==
    [scheme |-> entity.server.scheme, host |-> entity.server.host,
     port |-> entity.server.port, type |-> type, name |-> entity.name]

\* repository.create({name, server, ...}): an entity that has no id and no uri.
NewEntity(name, server) == [NoActor EXCEPT !.name = name, !.server = server]

\* entity.uri = entity.uri || getIdForActor(entity, type)
FrozenUri(entity, type) ==
    IF entity.uri # NoId THEN entity.uri ELSE getIdForActor(entity, type)

\* The bodies UserService.create is called with by a client.
CreateUserDtos ==
    [name : ActorNames, server : ActorServers, displayName : {"Alice"},
     summary : {"about"}, iconUrl : {"icon.png"}]

\* UserService.create, lines 26-35: the entity it saves, before it has an id.
UserEntityOf(user) ==
    LET entity == [NewEntity(user.name, user.server) EXCEPT
                      !.displayName = user.displayName,
                      !.summary = user.summary,
                      !.icon = user.iconUrl]
    IN [entity EXCEPT !.uri = FrozenUri(entity, "user")]

\* What a call of an actor service came to: the method, the name or id it
\* was called with, the outcome (ok or the exception), the value returned and
\* the uri of the actor returned.
NoLookup ==
    [op |-> "", name |-> "", server |-> LocalServer, id |-> 0, kind |-> "",
     ret |-> "", uri |-> NoId]
Outcome(op, name, id, kind, ret, uri) ==
    [op |-> op, name |-> name, server |-> LocalServer, id |-> id, kind |-> kind,
     ret |-> ret, uri |-> uri]

\* findOneOrFail({name, server: local}): the rows it can return.
LocalRows(repository, name) ==
    {row \in repository : row.name = name /\ row.server = LocalServer}

\* findOne({name}): the rows it can return.
RowsByName(repository, name) == {row \in repository : row.name = name}

ActorCall(outcome) ==
    /\ resolved' = outcome
    /\ UNCHANGED <<storeVars, handlerVars, lastOp, collection, finding>>

UniqueViolation_Unconstrained(repository, entity) == FALSE

\* The User table keeps a name unique on a server: the rows an insert of the
\* entity would collide with.
UniqueViolation(repository, entity) ==
    \E row \in repository :
        row.name = entity.name /\ row.server = entity.server

\* UserService.create, lines 23-38: the row is saved under a new id, or the
\* save is rejected by the table and the rejection goes to the caller.
Created(op, user) ==
    IF UniqueViolation(userRepository, UserEntityOf(user))
    THEN /\ ActorCall([Outcome(op, user.name, 0, "QueryFailedError", "", NoId)
                          EXCEPT !.server = user.server])
         /\ UNCHANGED <<userRepository, groupRepository, lastId>>
    ELSE /\ lastId.user < MaxActors
         /\ LET saved == [UserEntityOf(user) EXCEPT !.id = lastId.user + 1] IN
            /\ userRepository' = userRepository \cup {saved}
            /\ ActorCall([Outcome(op, user.name, saved.id, "ok", "entity",
                                  saved.uri)
                             EXCEPT !.server = user.server])
         /\ lastId' = [lastId EXCEPT !.user = @ + 1]
         /\ UNCHANGED groupRepository

UserCreate(user) == Created("UserService.create", user)

\* UserService.createEmptyUserEntry, lines 40-56.
createEmptyUserEntry(username) ==
    IF RowsByName(userRepository, username) # {}
    THEN /\ ActorCall(Outcome("UserService.createEmptyUserEntry", username, 0,
                              "Error", "", NoId))
         /\ UNCHANGED <<userRepository, groupRepository, lastId>>
    ELSE /\ lastId.user < MaxActors
         /\ LET entity == [NewEntity(username, LocalServer) EXCEPT
                                 !.displayName = username]
                saved == [entity EXCEPT !.id = lastId.user + 1,
                                        !.uri = FrozenUri(entity, "user")] IN
            /\ userRepository' = userRepository \cup {saved}
            /\ ActorCall(Outcome("UserService.createEmptyUserEntry", username,
                                 saved.id, "ok", "entity", saved.uri))
         /\ lastId' = [lastId EXCEPT !.user = @ + 1]
         /\ UNCHANGED groupRepository

\* UserService.delete, lines 58-66.
UserDelete(name) ==
    /\ IF RowsByName(userRepository, name) = {}
       THEN /\ ActorCall(Outcome("UserService.delete", name, 0, "Error", "", NoId))
            /\ UNCHANGED userRepository
       ELSE \E user \in RowsByName(userRepository, name) :
                /\ userRepository' = userRepository \ {user}
                /\ ActorCall(Outcome("UserService.delete", name, user.id, "ok",
                                     "entity", user.uri))
    /\ UNCHANGED <<groupRepository, lastId>>

GlobalRows_AnyServer(repository, name, server) ==
    {row \in repository : row.name = name}

\* UserService.findGlobalByName, lines 101-114: the rows
\* findOneOrFail({name, server}) can return.
GlobalRows(repository, name, server) ==
    {row \in repository : row.name = name /\ row.server = server}

\* UserService.findGlobalByName, lines 101-114.
findGlobalByName(name, server) ==
    /\ IF GlobalRows(userRepository, name, server) = {}
       THEN ActorCall([Outcome("UserService.findGlobalByName", name, 0,
                               "Error", "", NoId) EXCEPT !.server = server])
       ELSE \E row \in GlobalRows(userRepository, name, server) :
                ActorCall([Outcome("UserService.findGlobalByName", name, row.id,
                                   "ok", "entity", row.uri)
                              EXCEPT !.server = server])
    /\ UNCHANGED <<userRepository, groupRepository, lastId>>

\* The actors an incoming post names as its sender.
Actors == [name : ActorNames, server : ActorServers]

\* PostService.findOrCreateUser, lines 163-184: the user found, or a new one
\* made from the name and the server alone.
findOrCreateUser(user) ==
    IF GlobalRows(userRepository, user.name, user.server) # {}
    THEN /\ \E row \in GlobalRows(userRepository, user.name, user.server) :
                ActorCall([Outcome("PostService.findOrCreateUser", user.name,
                                   row.id, "ok", "entity", row.uri)
                              EXCEPT !.server = user.server])
         /\ UNCHANGED <<userRepository, groupRepository, lastId>>
    ELSE Created("PostService.findOrCreateUser",
                 [name |-> user.name, server |-> user.server,
                  displayName |-> user.name, summary |-> "", iconUrl |-> ""])

\* PostService.findOrCreateGroup, lines 194-199: the lookup.  When
\* GroupService.findGlobalByName rejects, the handler goes on to create the
\* group; the entity it will save has no id yet.
findOrCreateGroup(h, group) ==
    /\ finding[h] = NoActor
    /\ IF GlobalRows(groupRepository, group.name, group.server) # {}
       THEN /\ \E row \in GlobalRows(groupRepository, group.name, group.server) :
                   resolved' =
                       [Outcome("PostService.findOrCreateGroup", group.name,
                                row.id, "ok", "entity", row.uri)
                           EXCEPT !.server = group.server]
            /\ UNCHANGED finding
       ELSE /\ finding' = [finding EXCEPT ![h] =
                   [NewEntity(group.name, group.server) EXCEPT
                       !.displayName = group.name]]
            /\ UNCHANGED resolved
    /\ UNCHANGED <<storeVars, handlerVars, lastOp, collection, userRepository,
                   groupRepository, lastId>>

\* PostService.findOrCreateGroup, lines 200-212: GroupService.create saves the
\* group under a new id.
groupServiceCreate(h) ==
    /\ finding[h] # NoActor
    /\ lastId.group < MaxActors
    /\ LET entity == finding[h]
           uri == FrozenUri(entity, "group")
           saved == [entity EXCEPT !.id = lastId.group + 1,
                                   !.uri = uri,
                                   !.actor = IF entity.server = LocalServer
                                             THEN uri ELSE NoId] IN
       /\ groupRepository' = groupRepository \cup {saved}
       /\ resolved' = [Outcome("PostService.findOrCreateGroup", saved.name,
                               saved.id, "ok", "entity", saved.uri)
                          EXCEPT !.server = saved.server]
    /\ lastId' = [lastId EXCEPT !.group = @ + 1]
    /\ finding' = [finding EXCEPT ![h] = NoActor]
    /\ UNCHANGED <<storeVars, handlerVars, lastOp, collection, userRepository>>

\* GroupService.create, lines 27-58.  A group of the local server gets its
\* actor object, whose id is the uri of the group; the actor of a group of
\* another server is left to be fetched.
GroupCreate(name, server) ==
    /\ lastId.group < MaxActors
    /\ LET entity == NewEntity(name, server)
           uri == FrozenUri(entity, "group")
           saved == [entity EXCEPT !.id = lastId.group + 1,
                                   !.uri = uri,
                                   !.actor = IF server = LocalServer
                                             THEN uri ELSE NoId] IN
       /\ groupRepository' = groupRepository \cup {saved}
       /\ ActorCall(Outcome("GroupService.create", name, saved.id, "ok",
                            "entity", saved.uri))
    /\ lastId' = [lastId EXCEPT !.group = @ + 1]
    /\ UNCHANGED userRepository

\* The bodies of an update: the id of the group and the server to move it to.
UpdateGroupDtos == [id : 1..MaxActors, server : ActorServers]

\* Lines 64-72: the row after save(entity), entity being the DTO with its
\* server replaced by the Server row.
UpdatedGroup(row, group) == [row EXCEPT !.server = group.server]

\* GroupService.update, lines 60-77.
GroupUpdate(group) ==
    /\ IF \E row \in groupRepository : row.id = group.id
       THEN LET row == CHOOSE r \in groupRepository : r.id = group.id IN
            /\ groupRepository' =
                   (groupRepository \ {row}) \cup {UpdatedGroup(row, group)}
            /\ ActorCall(Outcome("GroupService.update", row.name, group.id,
                                 "ok", "entity", row.uri))
       ELSE /\ ActorCall(Outcome("GroupService.update", "", group.id,
                                 "MethodNotAllowed", "", NoId))
            /\ UNCHANGED groupRepository
    /\ UNCHANGED <<userRepository, lastId>>

\* GroupService.delete, lines 79-83.
GroupDelete(id) ==
    /\ IF \E row \in groupRepository : row.id = id
       THEN LET row == CHOOSE r \in groupRepository : r.id = id IN
            /\ groupRepository' = groupRepository \ {row}
            /\ ActorCall(Outcome("GroupService.delete", row.name, id, "ok",
                                 "entity", row.uri))
       ELSE /\ ActorCall(Outcome("GroupService.delete", "", id, "Error", "", NoId))
            /\ UNCHANGED groupRepository
    /\ UNCHANGED <<userRepository, lastId>>

\* A lookup by name on the local server: the row found, or what the method
\* does when there is none.
Lookup(op, repository, name, missing) ==
    /\ IF LocalRows(repository, name) = {}
       THEN ActorCall(missing)
       ELSE \E row \in LocalRows(repository, name) :
                ActorCall(Outcome(op, name, row.id, "ok", "entity", row.uri))
    /\ UNCHANGED <<userRepository, groupRepository, lastId>>

\* UserService.findLocalByName, lines 88-99: a plain Error when there is no
\* such user.
UserFindLocalByName(name) ==
    Lookup("UserService.findLocalByName", userRepository, name,
           Outcome("UserService.findLocalByName", name, 0, "Error", "", NoId))

\* GroupService.findLocalByName, lines 118-129.
GroupFindLocalByName(name) ==
    Lookup("GroupService.findLocalByName", groupRepository, name,
           Outcome("GroupService.findLocalByName", name, 0, "Error", "", NoId))

\* ApUserService.getLocalUser, lines 34-42: the rejection is caught and not
\* returned, the method resolves with undefined.
getLocalUser(name) ==
    Lookup("ApUserService.getLocalUser", userRepository, name,
           Outcome("ApUserService.getLocalUser", name, 0, "ok", "undefined", NoId))

\* ApUserService.getActorForUser, lines 44-52: createActor reads the uri of
\* the user it was given; with undefined the read throws and the catch
\* rejects with what was thrown.
getActorForUser(name) ==
    /\ IF LocalRows(userRepository, name) = {}
       THEN ActorCall(Outcome("ApUserService.getActorForUser", name, 0,
                              "TypeError", "", NoId))
       ELSE \E user \in LocalRows(userRepository, name) :
                ActorCall(Outcome("ApUserService.getActorForUser", name, user.id,
                                  "ok", "actor", user.uri))
    /\ UNCHANGED <<userRepository, groupRepository, lastId>>

\* ApGroupService.getLocalGroup, lines 290-298.
getLocalGroup(name) ==
    Lookup("ApGroupService.getLocalGroup", groupRepository, name,
           Outcome("ApGroupService.getLocalGroup", name, 0, "Error", "", NoId))

\* ApGroupService.getActorForGroup, lines 307-315: the stored actor object of
\* the group; whatever fails is answered with NotFound.
getActorForGroup(name) ==
    /\ IF LocalRows(groupRepository, name) = {}
       THEN ActorCall(Outcome("ApGroupService.getActorForGroup", name, 0,
                              "NotFound", "", NoId))
       ELSE \E group \in LocalRows(groupRepository, name) :
                IF group.actor = NoId
                THEN ActorCall(Outcome("ApGroupService.getActorForGroup", name,
                                       group.id, "NotFound", "", NoId))
                ELSE ActorCall(Outcome("ApGroupService.getActorForGroup", name,
                                       group.id, "ok", "actor", group.actor))
    /\ UNCHANGED <<userRepository, groupRepository, lastId>>

\* ------------------------------------------------- PostService: replies
\* Lines 237-254: PostService.createReply(post, parent), parent being the
\* uuid of the post replied to.  The result names the parent asked for.
createReply(h, u, parent) ==
    /\ IF parent \notin Uuids
       THEN /\ Respond(h, Result("createReply", "", "BadRequest", "", "", u,
                                 parent, TRUE))
            /\ UNCHANGED <<posts, nextUuid>>
       ELSE /\ nextUuid < MaxPosts + MaxReplies
            /\ nextUuid' = nextUuid + 1
            /\ posts' = posts \cup
                   {[uuid |-> nextUuid + 1, uri |-> uriFromUuid(nextUuid + 1),
                     server |-> LocalServer, sender |-> u, deleted |-> FALSE,
                     parent |-> parent]}
            /\ Respond(h, Result("createReply", "", "ok", "", "post", u, parent,
                                 TRUE))
    /\ UNCHANGED <<activities, followers, liked>>

\* The posts an incoming Create carries: their sender, the groups they are
\* addressed to, and the uri of the post they reply to, if any.
CreateGlobalPostDtos ==
    [sender : Actors,
     groups : {{}} \cup {{group} : group \in Actors},
     parent : {NoUri, UnknownPostUri} \cup PostUris]

\* Line 123: the User table after findOrCreateUser(user).
WithUser(user) ==
    IF GlobalRows(userRepository, user.name, user.server) # {}
    THEN userRepository
    ELSE userRepository \cup
             {[UserEntityOf([name |-> user.name, server |-> user.server,
                             displayName |-> user.name, summary |-> "",
                             iconUrl |-> ""])
                  EXCEPT !.id = lastId.user + 1]}

\* Lines 128-129: the Group table after findOrCreateGroup on each of the
\* groups, of which a post names one at most here.
WithGroups(groups) ==
    groupRepository \cup
        {[NewEntity(group.name, group.server) EXCEPT
             !.id = lastId.group + 1,
             !.displayName = group.name,
             !.uri = getIdForActor(group, "group"),
             !.actor = IF group.server = LocalServer
                       THEN getIdForActor(group, "group") ELSE NoId] :
         group \in {g \in groups :
                       GlobalRows(groupRepository, g.name, g.server) = {}}}

\* Lines 122-153: PostService.createFromActivity(post).  The sender and the
\* groups are found or created first; findByUri (lines 350-352) then rejects
\* with the repository's EntityNotFound when no post has the parent's uri.
createFromActivity(h, post) ==
    /\ pc[h] = "idle"
    /\ lastId.user + 1 <= MaxActors \/ WithUser(post.sender) = userRepository
    /\ lastId.group + 1 <= MaxActors \/ WithGroups(post.groups) = groupRepository
    /\ userRepository' = WithUser(post.sender)
    /\ groupRepository' = WithGroups(post.groups)
    /\ lastId' = [user |-> IF WithUser(post.sender) = userRepository
                           THEN lastId.user ELSE lastId.user + 1,
                  group |-> IF WithGroups(post.groups) = groupRepository
                            THEN lastId.group ELSE lastId.group + 1]
    /\ LET given == post.parent # NoUri
           result(kind, ret) ==
               Result("createFromActivity", "", kind, "", ret, 0, post.parent.n,
                      given) IN
       IF given /\ post.parent \notin PostUris
       THEN /\ lastOp' = [lastOp EXCEPT ![h] = result("EntityNotFound", "")]
            /\ UNCHANGED <<posts, nextUuid>>
       ELSE /\ nextUuid < MaxPosts + MaxReplies
            /\ nextUuid' = nextUuid + 1
            /\ posts' = posts \cup
                   {[uuid |-> nextUuid + 1, uri |-> uriFromUuid(nextUuid + 1),
                     server |-> post.sender.server, sender |-> 0,
                     deleted |-> FALSE,
                     parent |-> IF given THEN PostByUri(post.parent).uuid ELSE 0]}
            /\ lastOp' = [lastOp EXCEPT ![h] = result("ok", "post")]
    /\ request' = [request EXCEPT ![h] = NoRequest]
    /\ UNCHANGED <<activities, followers, liked, pc, activityEntity, fullGroup,
                   wasFollower, accept, resolved, collection, finding>>

\* ------------------------------------------------------------ collections
Min(a, b) == IF a <= b THEN a ELSE b
Max(a, b) == IF a >= b THEN a ELSE b

createPagedCollection_ZeroIndexed(items, pageSize, uri, page) ==
    LET start == page * pageSize
        count == Max(0, Min(pageSize, Len(items) - start))
    IN [id |-> uri, totalItems |-> Len(items),
        orderedItems |-> [i \in 1..count |-> items[start + i]],
        next |-> (page + 1) * pageSize < Len(items),
        prev |-> page > 1]

createPagedCollection_NextOnFullPage(items, pageSize, uri, page) ==
    LET start == (page - 1) * pageSize
        count == Max(0, Min(pageSize, Len(items) - start))
    IN [id |-> uri, totalItems |-> Len(items),
        orderedItems |-> [i \in 1..count |-> items[start + i]],
        next |-> count = pageSize,
        prev |-> page > 1]

\* ActivityService.createPagedCollection(items, pageSize, uri, page): the
\* page-th slice of pageSize items, the number of all items, and whether the
\* page has links to the next and to the previous page.
createPagedCollection(items, pageSize, uri, page) ==
    LET start == (page - 1) * pageSize
        count == Max(0, Min(pageSize, Len(items) - start))
    IN [id |-> uri, totalItems |-> Len(items),
        orderedItems |-> [i \in 1..count |-> items[start + i]],
        next |-> start + pageSize < Len(items),
        prev |-> page > 1]

\* What a request for a Collection came to: the method, the name and the
\* page asked for, the id of the group found, the items, page size and page the Collection was built
\* from, the outcome (ok or the exception) and the Collection.
NoPage == 0
NoCollection ==
    [op |-> "", name |-> "", group |-> 0, requested |-> NoPage, items |-> <<>>,
     pageSize |-> 0, page |-> 0, kind |-> "",
     result |-> createPagedCollection(<<>>, 0, NoUri, 0)]

\* The item lists a collection is built from.
ItemLists == UNION {[1..n -> {"a", "b"}] : n \in 0..MaxItems}

\* A call of createPagedCollection.
PagedCollection(items, pageSize, page) ==
    /\ collection' =
           [op |-> "createPagedCollection", name |-> "", group |-> 0,
            requested |-> page,
            items |-> items, pageSize |-> pageSize, page |-> page, kind |-> "ok",
            result |-> createPagedCollection(items, pageSize, NoUri, page)]
    /\ UNCHANGED <<storeVars, handlerVars, lastOp, actorVars, finding>>

\* ---------------------------------- ApGroupService.getOutbox and getInbox
\* Line 194 and 227: the size of a page.
PageSize == 100

\* The uris of the rows selected from the table, in the order of the table.
Select(kept) == [i \in DOMAIN kept |-> kept[i].uri]

\* ActivityService.getInboxActivitiesForGroup(group): the activities that
\* list the group among their destinations.
getInboxActivitiesForGroup(group) ==
    LET Keep(row) == group.id \in Range(row.destinationGroups)
    IN Select(SelectSeq(activities, Keep))

\* ActivityService.getOutboxActivitiesForGroup(group): the activities the
\* group issued.
getOutboxActivitiesForGroup(group) ==
    LET Keep(row) == row.sourceGroup = group.id
    IN Select(SelectSeq(activities, Keep))

EffectivePage_Second(page) == IF page = NoPage THEN 2 ELSE page

\* Lines 196 and 229: page || 1.
EffectivePage(page) == IF page = NoPage THEN 1 ELSE page

\* Lines 180-201 and 212-234: the group is looked up, then its actor, and the
\* page is cut out of its activities.
GroupCollection(op, groupname, page, part) ==
    LET Activities(group) ==
            IF op = "getOutbox" THEN getOutboxActivitiesForGroup(group)
            ELSE getInboxActivitiesForGroup(group)
    IN
    /\ IF LocalRows(groupRepository, groupname) = {}
       THEN collection' =
                [NoCollection EXCEPT !.op = op, !.name = groupname,
                                     !.requested = page, !.kind = "NotFound"]
       ELSE \E group \in LocalRows(groupRepository, groupname) :
                IF group.actor = NoId
                THEN collection' =
                         [NoCollection EXCEPT !.op = op, !.name = groupname,
                                              !.requested = page,
                                              !.kind = "BadRequest"]
                ELSE collection' =
                         [op |-> op, name |-> groupname, group |-> group.id,
                          requested |-> page,
                          items |-> Activities(group), pageSize |-> PageSize,
                          page |-> EffectivePage(page), kind |-> "ok",
                          result |-> createPagedCollection(
                              Activities(group), PageSize,
                              <<group.actor, part>>, EffectivePage(page))]
    /\ UNCHANGED <<storeVars, handlerVars, lastOp, actorVars, finding>>

getOutbox(groupname, page) ==
    GroupCollection("getOutbox", groupname, page, "outbox")

getInbox(groupname, page) ==
    GroupCollection("getInbox", groupname, page, "inbox")

\* ------------------------------------------------------------ the system
Init ==
    /\ activities = <<>>
    /\ posts = {}
    /\ nextUuid = 0
    /\ followers = [g \in Groups |-> {}]
    /\ liked = [u \in Users |-> <<>>]
    /\ pc = [h \in Handlers |-> "idle"]
    /\ request = [h \in Handlers |-> NoRequest]
    /\ activityEntity = [h \in Handlers |-> NoActivity]
    /\ fullGroup = [h \in Handlers |-> {}]
    /\ wasFollower = [h \in Handlers |-> FALSE]
    /\ accept = [h \in Handlers |-> NoPayload]
    /\ lastOp = [h \in Handlers |-> NoResult]
    /\ userRepository = {}
    /\ groupRepository = {}
    /\ lastId = [user |-> 0, group |-> 0]
    /\ resolved = NoLookup
    /\ collection = NoCollection
    /\ finding = [h \in Handlers |-> NoActor]

\* The steps of a request under way.
Step(h) ==
    \/ saveCreate(h)
    \/ deliverToFollowers(h)
    \/ \E failing \in SUBSET {UserUri(u) : u \in Users} :
           deliverToSettles(h, failing)
    \/ saveFollow(h)
    \/ addFollower(h)
    \/ saveFollowers(h)
    \/ findRequest(h)
    \/ saveAccept(h)
    \/ \E delivered \in BOOLEAN : deliverTo(h, delivered)

\* Requests one after the other: every request is served to its end before
\* the next one arrives.
Worker == "h1"

\* The post a local user publishes through the outbox.
NoteObjects(u) ==
    {[Payload(NoUri, "Note", UserUri(u), NoUri, NoUri, "absent")
         EXCEPT !.content = "text"]}

\* The inboxes of the local groups, and the local users publishing.
Next ==
    \/ \E g \in Groups, data \in InboxPayloads :
           handleIncoming(Worker, g, data)
    \/ Step(Worker)
    \/ \E u \in LocalUsers : \E data \in NoteObjects(u) :
           UserOutbox(Worker, u, data)

Spec == Init /\ [][Next]_vars

\* The outboxes of the local users and groups, and the post service.
NextPost ==
    \/ \E g \in Groups, data \in OutboxPayloads :
           acceptPostRequest(Worker, g, data)
    \/ findRequest(Worker)
    \/ \E u \in LocalUsers : \E data \in UserPayloads(u) :
           UserOutbox(Worker, u, data)
    \/ \E u \in LocalUsers, server \in Servers : PostCreate(Worker, u, server)
    \/ \E post \in posts : PostSoftDelete(Worker, post)
    \/ \E uuid \in Uuids : PostDelete(Worker, uuid)

SpecPost == Init /\ [][NextPost]_vars

\* Two handlers serving Create deliveries to the group inboxes at once, while
\* local users publish.
ConcPayloads ==
    {data \in InboxPayloads : data.type = "Create" /\ data.audKind = "absent"}

NextConc ==
    \/ \E h \in Handlers, g \in Groups, data \in ConcPayloads :
           handleIncoming(h, g, data)
    \/ \E h \in Handlers : saveCreate(h)
    \/ \E h \in Handlers : deliverToFollowers(h)
    \/ \E u \in LocalUsers : \E data \in NoteObjects(u) :
           UserOutbox(Worker, u, data)

SpecConc == Init /\ [][NextConc]_vars

\* The fan-out of a Create to a group with several followers.  The server has
\* served three Follows (id ext1) to group 1, from users 1, 2 and 3: the
\* Follow is stored with user 1 as its source, an Accept is stored for each
\* of them, and all three follow the group.
FanoutGroup == CHOOSE g \in Groups : \A k \in Groups : g <= k
FanoutFollow == CHOOSE id \in ExternalUris : TRUE

FanoutActivities ==
    [n \in 1..(Cardinality(Users) + 1) |->
        IF n = 1
        THEN [create(Payload(FanoutFollow, "Follow", UserUri(1), NoUri, NoUri,
                             "absent"))
                 EXCEPT !.rowId = 1, !.uri = FanoutFollow,
                        !.destinationGroups = <<FanoutGroup>>]
        ELSE [NoActivity EXCEPT
                 !.rowId = n, !.uri = LocalActivityUri(n), !.type = "Accept",
                 !.sourceGroup = FanoutGroup,
                 !.destinationUsers = <<UserUri(1)>>,
                 !.activityObject =
                     createAcceptActivity(GroupUri(FanoutGroup), FanoutFollow,
                                          UserUri(n - 1))]]

InitFanout ==
    /\ activities = FanoutActivities
    /\ posts = {}
    /\ nextUuid = 0
    /\ followers = [g \in Groups |-> IF g = FanoutGroup THEN Users ELSE {}]
    /\ liked = [u \in Users |-> <<>>]
    /\ pc = [h \in Handlers |-> "idle"]
    /\ request = [h \in Handlers |-> NoRequest]
    /\ activityEntity = [h \in Handlers |-> NoActivity]
    /\ fullGroup = [h \in Handlers |-> {}]
    /\ wasFollower = [h \in Handlers |-> FALSE]
    /\ accept = [h \in Handlers |-> NoPayload]
    /\ lastOp = [h \in Handlers |-> NoResult]
    /\ userRepository = {}
    /\ groupRepository = {}
    /\ lastId = [user |-> 0, group |-> 0]
    /\ resolved = NoLookup
    /\ collection = NoCollection
    /\ finding = [h \in Handlers |-> NoActor]

NextFanout ==
    \/ \E g \in Groups :
       \E data \in {d \in InboxPayloads : d.type = "Create"} :
           handleIncoming(Worker, g, data)
    \/ saveCreate(Worker)
    \/ deliverToFollowers(Worker)
    \/ \E failing \in SUBSET {UserUri(u) : u \in Users} :
           deliverToSettles(Worker, failing)

SpecFanout == InitFanout /\ [][NextFanout]_vars

\* A group's inbox receiving Follows and its outbox receiving Accepts from a
\* client.
AcceptPayloads == {data \in OutboxPayloads : data.type = "Accept"}

NextOutbox ==
    \/ \E g \in Groups :
       \E data \in {d \in InboxPayloads : d.type = "Follow"} :
           handleIncoming(Worker, g, data)
    \/ \E g \in Groups, data \in AcceptPayloads :
           acceptPostRequest(Worker, g, data)
    \/ saveFollow(Worker)
    \/ addFollower(Worker)
    \/ saveFollowers(Worker)
    \/ findRequest(Worker)
    \/ saveAccept(Worker)
    \/ \E delivered \in BOOLEAN : deliverTo(Worker, delivered)

SpecOutbox == Init /\ [][NextOutbox]_vars

\* The actor services: users and groups are created, moved and deleted, and
\* looked up by name on the local server.
NextActor ==
    \/ \E user \in CreateUserDtos : UserCreate(user)
    \/ \E name \in ActorNames, server \in ActorServers :
           findGlobalByName(name, server)
    \/ \E user \in Actors : findOrCreateUser(user)
    \/ \E name \in ActorNames : createEmptyUserEntry(name)
    \/ \E name \in ActorNames : UserDelete(name)
    \/ \E name \in ActorNames, server \in ActorServers : GroupCreate(name, server)
    \/ \E group \in UpdateGroupDtos : GroupUpdate(group)
    \/ \E id \in 1..MaxActors : GroupDelete(id)
    \/ \E name \in ActorNames : UserFindLocalByName(name)
    \/ \E name \in ActorNames : GroupFindLocalByName(name)
    \/ \E name \in ActorNames : getLocalUser(name)
    \/ \E name \in ActorNames : getActorForUser(name)
    \/ \E name \in ActorNames : getLocalGroup(name)
    \/ \E name \in ActorNames : getActorForGroup(name)

SpecActor == Init /\ [][NextActor]_vars

\* The paginator applied to every list, page size and page.
NextPage ==
    \E items \in ItemLists, pageSize \in 1..MaxPageSize, page \in 1..MaxPage :
        PagedCollection(items, pageSize, page)

SpecPage == Init /\ [][NextPage]_vars

\* Groups are created, receive Creates and Follows in their inboxes, and
\* their inbox and outbox are read page by page; one request at a time.
Pages == {NoPage} \cup (1..MaxPage)

CollectionPayloads ==
    {data \in InboxPayloads :
        /\ data.type \in {"Create", "Follow"}
        /\ data.audKind = "absent"
        /\ data.actor = UserUri(1)}

NextCollection ==
    \/ /\ pc[Worker] = "idle"
       /\ \E name \in ActorNames, server \in ActorServers :
              GroupCreate(name, server)
    \/ \E g \in Groups, data \in CollectionPayloads :
           handleIncoming(Worker, g, data)
    \/ Step(Worker)
    \/ /\ pc[Worker] = "idle"
       /\ \E name \in ActorNames, page \in Pages : getOutbox(name, page)
    \/ /\ pc[Worker] = "idle"
       /\ \E name \in ActorNames, page \in Pages : getInbox(name, page)

SpecCollection == Init /\ [][NextCollection]_vars

\* Posts, replies to them by uuid, and posts that arrive in activities.
NextReply ==
    \/ \E u \in LocalUsers : \E data \in NoteObjects(u) :
           UserOutbox(Worker, u, data)
    \/ \E u \in LocalUsers, parent \in 1..(MaxPosts + MaxReplies) :
           createReply(Worker, u, parent)
    \/ \E user \in Actors : findOrCreateUser(user)
    \/ \E post \in CreateGlobalPostDtos : createFromActivity(Worker, post)
    \/ \E uuid \in Uuids : PostDelete(Worker, uuid)

SpecReply == Init /\ [][NextReply]_vars

\* A local user publishes a post, replies to it, and likes posts, while posts
\* are deleted.
LikePayloads(u) == {data \in UserPayloads(u) : data.type = "Like"}

NextLike ==
    \/ \E u \in LocalUsers : \E data \in NoteObjects(u) :
           UserOutbox(Worker, u, data)
    \/ \E u \in LocalUsers, parent \in 1..(MaxPosts + MaxReplies) :
           createReply(Worker, u, parent)
    \/ \E u \in LocalUsers : \E data \in LikePayloads(u) :
           UserOutbox(Worker, u, data)
    \/ \E post \in posts : PostSoftDelete(Worker, post)
    \/ \E uuid \in Uuids : PostDelete(Worker, uuid)

SpecLike == Init /\ [][NextLike]_vars

\* Two handlers finding or creating the groups that incoming posts name,
\* while groups are deleted.
NextFind ==
    \/ \E h \in Handlers, group \in Actors : findOrCreateGroup(h, group)
    \/ \E h \in Handlers : groupServiceCreate(h)
    \/ \E id \in 1..MaxActors : GroupDelete(id)

SpecFind == Init /\ [][NextFind]_vars

\* The server record made for an address of the local host that names no
\* port.
PortlessLocal == [LocalServer EXCEPT !.port = NoPort]

\* Posts are created on the servers and on the portless record of the local
\* host, published through the outbox, replied to, soft-deleted and deleted.
NextLocal ==
    \/ \E u \in LocalUsers, server \in Servers \cup {PortlessLocal} :
           PostCreate(Worker, u, server)
    \/ \E u \in LocalUsers : \E data \in UserPayloads(u) :
           UserOutbox(Worker, u, data)
    \/ \E u \in LocalUsers, parent \in 1..(MaxPosts + MaxReplies) :
           createReply(Worker, u, parent)
    \/ \E post \in posts : PostSoftDelete(Worker, post)
    \/ \E uuid \in Uuids : PostDelete(Worker, uuid)

SpecLocal == Init /\ [][NextLocal]_vars

\* The three dispatches side by side: the inbox and the outbox of a group and
\* the outbox of the local users, over a store that holds posts of the local
\* server and of others.
NextDispatch ==
    \/ \E data \in InboxPayloads : handleIncoming(Worker, FanoutGroup, data)
    \/ Step(Worker)
    \/ \E data \in OutboxPayloads : acceptPostRequest(Worker, FanoutGroup, data)
    \/ \E u \in LocalUsers : \E data \in UserPayloads(u) :
           UserOutbox(Worker, u, data)
    \/ \E u \in LocalUsers, server \in Servers : PostCreate(Worker, u, server)

SpecDispatch == Init /\ [][NextDispatch]_vars

\* Two handlers serving Follows to the group inboxes at once.
FollowPayloads == {data \in InboxPayloads : data.type = "Follow"}

NextFollow ==
    \/ \E h \in Handlers, g \in Groups, data \in FollowPayloads :
           handleIncoming(h, g, data)
    \/ \E h \in Handlers : saveFollow(h)
    \/ \E h \in Handlers : addFollower(h)
    \/ \E h \in Handlers : saveFollowers(h)
    \/ \E h \in Handlers : findRequest(h)
    \/ \E h \in Handlers : saveAccept(h)
    \/ \E h \in Handlers, delivered \in BOOLEAN : deliverTo(h, delivered)

SpecFollow == Init /\ [][NextFollow]_vars

\* ============================================================= properties
\* A request to a group's inbox that handler h has served to its end.
InboxDone(h) ==
    /\ pc[h] = "idle"
    /\ request[h].op = "inbox"
    /\ lastOp[h].op = "handleIncoming"

\* ... and that was handled: it got as far as saving the Activity.
Handled(h) ==
    /\ InboxDone(h)
    /\ lastOp[h].type \in {"Create", "Follow"}
    /\ lastOp[h].kind # "BadRequest"
    /\ lastOp[h].ret # "undefined"

RowsWithUri(uri) == {i \in DOMAIN activities : activities[i].uri = uri}

UniqueUris ==
    \A i, j \in DOMAIN activities :
        activities[i].uri = activities[j].uri => i = j

ListsReceiver ==
    \A h \in Handlers :
        Handled(h) =>
            \E i \in RowsWithUri(request[h].data.id) :
                request[h].group \in Range(activities[i].destinationGroups)

DestinationsGrow ==
    \A i \in DOMAIN activities :
        /\ i \in DOMAIN activities'
        /\ activities'[i].uri = activities[i].uri
        /\ Range(activities[i].destinationGroups)
               \subseteq Range(activities'[i].destinationGroups)

\* C1: after any sequence of inbox deliveries the store holds at most one
\* Activity per uri; the record of the uri a handled delivery carried lists
\* the group that received it; and a record's destinationGroups never lose a
\* group, so the record lists every group that received it.
C1_OneRecordListsReceivers ==
    [](UniqueUris /\ ListsReceiver) /\ [][DestinationsGrow]_vars

\* A delivery of a stored uri has been handled and its record lists both
\* local groups.
C1_Witness ==
    /\ Handled(Worker)
    /\ \E i \in RowsWithUri(request[Worker].data.id) :
           Range(activities[i].destinationGroups) = Groups

NoGroupTwice(entity) ==
    \A g \in Groups : Count(entity.destinationGroups, g) <= 1

\* C2: in every reachable state no group occurs more than once in the
\* destinationGroups of any Activity, stored or held by a handler.
C2_NoGroupTwice ==
    /\ \A i \in DOMAIN activities : NoGroupTwice(activities[i])
    /\ \A h \in Handlers : NoGroupTwice(activityEntity[h])

\* C3: when two handlers have both run handleIncoming for the same activity
\* uri, there is exactly one Activity with that uri and its destinationGroups
\* hold both receiving groups.
C3_ExactlyOneRecord ==
    \A h1, h2 \in Handlers :
        (/\ h1 # h2
         /\ InboxDone(h1) /\ InboxDone(h2)
         /\ lastOp[h1].type = "Create" /\ lastOp[h2].type = "Create"
         /\ lastOp[h1].kind # "BadRequest" /\ lastOp[h2].kind # "BadRequest"
         /\ request[h1].data.id = request[h2].data.id)
        => /\ Cardinality(RowsWithUri(request[h1].data.id)) = 1
           /\ \A i \in RowsWithUri(request[h1].data.id) :
                  {request[h1].group, request[h2].group}
                      \subseteq Range(activities[i].destinationGroups)

\* C4: a Follow from a user who was already a follower of the group returns
\* false.
C4_SecondFollowReturnsFalse ==
    \A h \in Handlers :
        (InboxDone(h) /\ lastOp[h].type = "Follow" /\ lastOp[h].flag)
            => lastOp[h].ret = "false"

SynthesizedAccepts(g, u) ==
    {i \in DOMAIN activities :
        /\ activities[i].type = "Accept"
        /\ activities[i].sourceGroup = g
        /\ activities[i].activityObject.actor = GroupUri(g)
        /\ activities[i].activityObject.target = UserUri(u)}

\* C5: over any sequence of Follows from user U to group G at most one Accept
\* from G to U is synthesized and dispatched.
C5_OneAcceptPerFollower ==
    \A g \in Groups, u \in Users : Cardinality(SynthesizedAccepts(g, u)) <= 1

\* C6: the targets deliverToFollowers hands to the delivery capability are
\* exactly the inbox uris of the group's followers other than the sender.
C6_TargetsAreFollowerInboxes ==
    \A h \in Handlers :
        (InboxDone(h) /\ lastOp[h].type = "Create" /\ lastOp[h].delivery.called)
            => lastOp[h].delivery.targets =
                   {InboxOf(UserUri(u)) :
                       u \in lastOp[h].delivery.followers \ {lastOp[h].subject}}

\* The step just taken was a soft deletion of post p: PostService.softDelete
\* called on it, or a Delete for it in its owner's outbox.
SoftDeleteOf(p) ==
    /\ lastOp'[Worker].subject = p.uuid
    /\ \/ lastOp'[Worker].op = "softDelete"
       \/ lastOp'[Worker].op = "userOutbox" /\ lastOp'[Worker].type = "Delete"

\* C7: soft-deleting a post of the local server succeeds, sets deleted on it
\* and keeps the record, with the uuid and the uri it had.
C7_SoftDeleteKeepsLocalPost ==
    [][\A p \in posts :
          (SoftDeleteOf(p) /\ p.server = LocalServer)
              => /\ lastOp'[Worker].kind = "ok"
                 /\ [p EXCEPT !.deleted = TRUE] \in posts'
                 /\ Cardinality({q \in posts' : q.uuid = p.uuid}) = 1]_vars

\* A Delete in the owner's outbox has soft-deleted a published post, which is
\* still stored under its uuid and uri.
C7_Witness ==
    /\ lastOp[Worker].op = "userOutbox"
    /\ lastOp[Worker].type = "Delete"
    /\ lastOp[Worker].kind = "ok"
    /\ \E p \in posts :
           /\ p.uuid = lastOp[Worker].subject
           /\ p.uri = uriFromUuid(p.uuid)
           /\ p.server = LocalServer
           /\ p.deleted

C9_UuidsOnlyGrow == [][Uuids \subseteq Uuids']_vars

\* C9 amended: only PostService.delete(uuid) removes a post record, and only
\* the one it names; every other operation keeps every post, changing at
\* most its deleted flag to true.
C9_OnlyDeleteRemoves ==
    [][IF lastOp'[Worker].op = "delete" /\ lastOp' # lastOp
       THEN posts' = {p \in posts : p.uuid # lastOp'[Worker].subject}
       ELSE \A p \in posts :
                p \in posts' \/ [p EXCEPT !.deleted = TRUE] \in posts']_vars

\* delete has removed the post it was called for: its uuid was handed out
\* and is stored no more.
C9_Witness ==
    /\ lastOp[Worker].op = "delete"
    /\ lastOp[Worker].kind = "ok"
    /\ lastOp[Worker].subject \in 1..nextUuid
    /\ lastOp[Worker].subject \notin Uuids

\* C10: an activity whose type is none of the eleven known types fails, in a
\* user's outbox and in a group's outbox, with BadRequest whose message holds
\* the name of the type.
C10_UnknownTypeIsBadRequest ==
    \A h \in Handlers :
        (/\ lastOp[h].op \in {"userOutbox", "groupOutbox"}
         /\ lastOp[h].type \notin KnownTypes)
            => /\ lastOp[h].kind = "BadRequest"
               /\ lastOp[h].msg = lastOp[h].type

\* A group's outbox has refused a Foo.
C10_Witness ==
    /\ lastOp[Worker].op = "groupOutbox"
    /\ lastOp[Worker].type = "Foo"
    /\ lastOp[Worker].kind = "BadRequest"
    /\ lastOp[Worker].msg = "Foo"

\* C11: an activity of none of the eleven known types posted to a group's
\* inbox fails with BadRequest whose message holds the name of the type.
C11_InboxUnknownTypeIsBadRequest ==
    \A h \in Handlers :
        (InboxDone(h) /\ lastOp[h].type \notin KnownTypes)
            => /\ lastOp[h].kind = "BadRequest"
               /\ lastOp[h].msg = lastOp[h].type

UnimplementedTypes == {"Update", "Add", "Remove", "Block", "Undo", "Reject"}

\* C12: an activity of type Update, Add, Remove, Block, Undo or Reject
\* dispatched to a user's outbox fails with NotImplemented.
C12_UserOutboxNotImplemented ==
    \A h \in Handlers :
        (lastOp[h].op = "userOutbox" /\ lastOp[h].type \in UnimplementedTypes)
            => lastOp[h].kind = "NotImplemented"

\* C13: an activity of type Update, Add, Remove, Block, Undo or Reject
\* dispatched to a group's outbox fails with NotImplemented.
C13_GroupOutboxNotImplemented ==
    \A h \in Handlers :
        (lastOp[h].op = "groupOutbox" /\ lastOp[h].type \in UnimplementedTypes)
            => lastOp[h].kind = "NotImplemented"

\* C14: every inbound Create handled for group G, its uri known or not, ends
\* with the Activity stored with G among its destinationGroups and G's
\* followers collection in its audience, and with the fan-out to G's
\* followers invoked.
C14_CreateIsStoredAndFannedOut ==
    \A h \in Handlers :
        (InboxDone(h) /\ lastOp[h].type = "Create" /\ lastOp[h].kind = "ok")
            => /\ \E i \in RowsWithUri(request[h].data.id) :
                      /\ request[h].group
                             \in Range(activities[i].destinationGroups)
                      /\ FollowersOf(GroupUri(request[h].group))
                             \in Range(activities[i].activityObject.audience)
               /\ lastOp[h].delivery.called

\* The fan-out of an inbound Create that handler h has served.
FannedOut(h) ==
    /\ InboxDone(h)
    /\ lastOp[h].type = "Create"
    /\ lastOp[h].delivery.called

\* C15: when a delivery fails during the fan-out of an inbound Create, the
\* request fails with InternalError, and the Activity saved before the
\* fan-out stays stored with the group among its destinationGroups.
C15_FailedFanoutIsInternalError ==
    \A h \in Handlers :
        (FannedOut(h) /\ lastOp[h].delivery.failed # {})
            => /\ lastOp[h].kind = "InternalError"
               /\ \E i \in RowsWithUri(request[h].data.id) :
                      request[h].group
                          \in Range(activities[i].destinationGroups)

\* C16: in a fan-out the delivery is attempted for every target, the
\* followers of the group other than the sender, whichever of the
\* deliveries fail.
C16_EveryTargetAttempted ==
    \A h \in Handlers :
        (FannedOut(h) /\ lastOp[h].delivery.settled)
            => lastOp[h].delivery.attempted =
                   {UserUri(u) :
                       u \in lastOp[h].delivery.followers \ {lastOp[h].subject}}

\* A fan-out to two targets, one delivery failed and the other did not, and
\* both were attempted.
C16_Witness ==
    /\ FannedOut(Worker)
    /\ lastOp[Worker].delivery.settled
    /\ Cardinality(lastOp[Worker].delivery.targets) >= 2
    /\ lastOp[Worker].delivery.failed # {}
    /\ lastOp[Worker].delivery.failed # lastOp[Worker].delivery.targets
    /\ lastOp[Worker].delivery.attempted = lastOp[Worker].delivery.targets

\* C17: an Accept posted to a group's outbox whose object is not the uri of
\* a stored Follow fails with NotFound or BadRequest, and neither the
\* Activity table nor any delivery is touched by the request.
C17_UnknownFollowIsDomainError ==
    [][\A h \in Handlers :
          (/\ pc[h] = "findRequest"
           /\ request[h].op = "outbox"
           /\ findByUri(accept[h].object).type # "Follow"
           /\ pc'[h] = "idle")
              => /\ lastOp'[h].kind \in {"NotFound", "BadRequest"}
                 /\ activities' = activities
                 /\ ~lastOp'[h].delivery.called]_vars

\* C18: an Accept a client posts to a group's outbox for a stored Follow is
\* delivered to exactly one target, the Follow's sourceUser (named by its
\* actor uri or by its inbox uri), whatever target the payload names, and the
\* request returns the payload.
C18_AcceptGoesToFollower ==
    \A h \in Handlers :
        (/\ pc[h] = "idle"
         /\ request[h].op = "outbox"
         /\ lastOp[h].op = "groupOutbox"
         /\ lastOp[h].type = "Accept"
         /\ lastOp[h].kind = "ok")
            => /\ lastOp[h].delivery.called
               /\ \E to \in {findByUri(request[h].data.object).sourceUser,
                              InboxOf(findByUri(request[h].data.object).sourceUser)} :
                      lastOp[h].delivery.targets = {to}
               /\ lastOp[h].ret = "payload"

\* The methods that resolve a local actor by its name, and the table and the
\* type of actor each of them works on.
UserResolvers ==
    {"UserService.findLocalByName", "ApUserService.getLocalUser",
     "ApUserService.getActorForUser"}
GroupResolvers ==
    {"GroupService.findLocalByName", "ApGroupService.getLocalGroup",
     "ApGroupService.getActorForGroup"}

\* The step just taken resolved a name, and these are the actors of the local
\* server that bear it.
Resolving == resolved' # resolved /\ resolved'.op \in UserResolvers \cup GroupResolvers
Bearers ==
    IF resolved'.op \in UserResolvers
    THEN LocalRows(userRepository', resolved'.name)
    ELSE LocalRows(groupRepository', resolved'.name)
ActorTypeOf(op) == IF op \in UserResolvers THEN "user" ELSE "group"

\* No step changes the uri of a row that stays in its table.
UrisKept(repository, after) ==
    \A row \in repository, row2 \in after : row2.id = row.id => row2.uri = row.uri

\* C19: the uri of an actor never changes, and whatever operations came
\* before, resolving the name of an actor that was created on the local
\* server and is on it still returns an actor with the uri of its creation.
C19_ResolveLocalKeepsUri ==
    [][/\ UrisKept(userRepository, userRepository')
       /\ UrisKept(groupRepository, groupRepository')
       /\ Resolving =>
             \A row \in Bearers :
                 row.uri = getIdForActor(row, ActorTypeOf(resolved'.op))
                     => /\ resolved'.kind = "ok"
                        /\ resolved'.uri = row.uri]_vars

\* C20: resolving a name that no actor of the local server bears fails with
\* NotFound.
C20_UnknownNameIsNotFound ==
    [][(Resolving /\ Bearers = {}) => resolved'.kind = "NotFound"]_vars

\* The step just taken was findOrCreateUser for the actor user.
FoundOrCreatedUser(user) ==
    /\ resolved'.op = "PostService.findOrCreateUser"
    /\ resolved'.name = user.name
    /\ resolved'.server = user.server
    /\ <<userRepository, resolved>>' # <<userRepository, resolved>>

\* The stored users of that name on that server.
RecordsOf(repository, user) ==
    {row \in repository : row.name = user.name /\ row.server = user.server}

\* The shadow record of an actor: its name and server, the name as
\* displayName, no summary and no icon.
IsShadow(row, user) ==
    /\ row.name = user.name
    /\ row.server = user.server
    /\ row.displayName = user.name
    /\ row.summary = ""
    /\ row.icon = ""

\* C21: findOrCreateUser for a (name, server) that has no record stores
\* exactly one record, the shadow of that actor, which findGlobalByName then
\* finds and which is the one returned; for a (name, server) that has a
\* record it returns a record of that (name, server) and stores nothing.
C21_FindOrCreateIsIdempotent ==
    [][\A user \in Actors :
          FoundOrCreatedUser(user) =>
              IF RecordsOf(userRepository, user) = {}
              THEN \E row \in userRepository' :
                       /\ userRepository' = userRepository \cup {row}
                       /\ row \notin userRepository
                       /\ IsShadow(row, user)
                       /\ RecordsOf(userRepository', user) = {row}
                       /\ resolved'.id = row.id
              ELSE /\ userRepository' = userRepository
                   /\ \E row \in RecordsOf(userRepository, user) :
                          resolved'.id = row.id]_vars

\* findOrCreateUser has been called for a user of another server who was
\* stored already under that name and server, as a shadow, while a user of
\* the same name is stored on the local server.
C21_Witness ==
    /\ resolved.op = "PostService.findOrCreateUser"
    /\ resolved.kind = "ok"
    /\ \E row \in userRepository :
           /\ row.id = resolved.id
           /\ row.id < lastId.user
           /\ row.server # LocalServer
           /\ row.server = resolved.server
           /\ IsShadow(row, [name |-> row.name, server |-> row.server])
    /\ LocalRows(userRepository, resolved.name) # {}

\* A Collection has been built by createPagedCollection.
Paged == collection.op = "createPagedCollection"

\* The 1-indexed positions of the list that lie on the page.
OnPage(items, pageSize, page) ==
    {j \in 1..Len(items) : (page - 1) * pageSize < j /\ j <= page * pageSize}

\* C22: createPagedCollection returns as totalItems the length of the whole
\* list and as orderedItems the items at positions (p-1)*s+1 to
\* min(p*s, length), in the order of the list.
C22_PageHoldsItsSlice ==
    Paged =>
        LET items == collection.items
            s == collection.pageSize
            p == collection.page
            page == collection.result.orderedItems
        IN /\ collection.result.totalItems = Len(items)
           /\ Len(page) = Cardinality(OnPage(items, s, p))
           /\ \A j \in OnPage(items, s, p) : page[j - (p - 1) * s] = items[j]

\* Page 2 of a list of five in pages of two: the third and the fourth item,
\* which differ.
C22_Witness ==
    /\ Paged
    /\ collection.page = 2 /\ collection.pageSize = 2
    /\ Len(collection.items) = 5
    /\ collection.result.totalItems = 5
    /\ Len(collection.result.orderedItems) = 2
    /\ collection.result.orderedItems[1] # collection.result.orderedItems[2]

\* C23: a page has a next link exactly when an item lies after it
\* (p*s < length), and a prev link exactly when it is not the first page.
C23_LinksWhenApplicable ==
    Paged =>
        /\ collection.result.next
               <=> collection.page * collection.pageSize < Len(collection.items)
        /\ collection.result.prev <=> collection.page > 1

\* The last page is full: it has a prev link and no next link.
C23_Witness ==
    /\ Paged
    /\ collection.page > 1
    /\ collection.page * collection.pageSize = Len(collection.items)
    /\ collection.result.prev
    /\ ~collection.result.next

\* The step just taken was a request for the inbox or the outbox of a group.
CollectionRead ==
    /\ collection' # collection
    /\ collection'.op \in {"getInbox", "getOutbox"}

\* The number of activities in the inbox or the outbox of group g.
BoxSize(op, g) ==
    IF op = "getInbox"
    THEN Cardinality({i \in DOMAIN activities :
                         g \in Range(activities[i].destinationGroups)})
    ELSE Cardinality({i \in DOMAIN activities : activities[i].sourceGroup = g})

\* C24: a request for the inbox or the outbox of a group of the local server
\* succeeds for every page; its totalItems is the number of activities in the
\* box; a page beyond the last has no orderedItems; and with no page given
\* the Collection is the one page 1 gives.
C24_PastTheEndIsEmpty ==
    [][(CollectionRead /\ LocalRows(groupRepository, collection'.name) # {})
          => /\ collection'.kind = "ok"
             /\ collection'.result.totalItems
                    = BoxSize(collection'.op, collection'.group)
             /\ (/\ collection'.requested # NoPage
                 /\ (collection'.requested - 1) * PageSize
                        >= BoxSize(collection'.op, collection'.group))
                    => collection'.result.orderedItems = <<>>
             /\ collection'.requested = NoPage
                    => collection'.result =
                           createPagedCollection(collection'.items, PageSize,
                                                 collection'.result.id, 1)]_vars

\* Page 2 of an inbox that holds activities has been read: no items, and the
\* number of all of them.
C24_Witness ==
    /\ collection.op = "getInbox"
    /\ collection.kind = "ok"
    /\ collection.requested = 2
    /\ collection.result.totalItems = BoxSize("getInbox", collection.group)
    /\ collection.result.totalItems > 0
    /\ collection.result.orderedItems = <<>>

\* The step just taken was the creation of a reply whose parent, given by
\* uuid or by uri, is no stored post.
UnresolvedReply ==
    /\ lastOp' # lastOp
    /\ lastOp'[Worker].flag
    /\ \/ /\ lastOp'[Worker].op = "createReply"
          /\ lastOp'[Worker].subject \notin Uuids
       \/ /\ lastOp'[Worker].op = "createFromActivity"
          /\ uriFromUuid(lastOp'[Worker].subject) \notin PostUris

\* C25: creating a reply whose parent cannot be resolved fails with
\* BadRequest, by uuid (createReply) and by uri (createFromActivity) alike,
\* and stores no post.
C25_UnresolvedParentIsBadRequest ==
    [][UnresolvedReply =>
          /\ lastOp'[Worker].kind = "BadRequest"
          /\ posts' = posts]_vars

\* The step just taken served a request to a user's outbox.
OutboxServed == lastOp' # lastOp /\ lastOp'[Worker].op = "userOutbox"

\* The Activity rows the step added.
NewRows == {i \in DOMAIN activities' : i \notin DOMAIN activities}

\* C26: a bare content object posted to a user's outbox is dispatched as a
\* Create by that user: the request succeeds and returns the payload, one
\* post of that user is stored, and one Activity is stored, a Create of that
\* user for that post whose payload is a Create with the user as its actor.
C26_BareObjectIsCreate ==
    [][(OutboxServed /\ lastOp'[Worker].flag) =>
          /\ lastOp'[Worker].kind = "ok"
          /\ lastOp'[Worker].type = "Create"
          /\ lastOp'[Worker].ret = "payload"
          /\ \E post \in posts' :
                 /\ post \notin posts
                 /\ posts' = posts \cup {post}
                 /\ post.sender = lastOp'[Worker].owner
                 /\ \E i \in NewRows :
                        /\ NewRows = {i}
                        /\ activities'[i].type = "Create"
                        /\ activities'[i].targetUser = lastOp'[Worker].owner
                        /\ activities'[i].targetPost = post.uuid
                        /\ activities'[i].activityObject.type = "Create"
                        /\ activities'[i].activityObject.actor
                               = UserUri(lastOp'[Worker].owner)
          /\ \A i \in DOMAIN activities : activities'[i] = activities[i]]_vars

\* A bare object has been posted to a user's outbox and served: the post and
\* its Create are stored.
C26_Witness ==
    /\ lastOp[Worker].op = "userOutbox"
    /\ lastOp[Worker].flag
    /\ lastOp[Worker].kind = "ok"
    /\ \E post \in posts : post.uuid = lastOp[Worker].subject
    /\ \E i \in DOMAIN activities :
           /\ activities[i].type = "Create"
           /\ activities[i].targetPost = lastOp[Worker].subject

\* The step just taken served a Like of a stored post in a user's outbox.
LikeServed ==
    /\ OutboxServed
    /\ request'[Worker].data.type = "Like"
    /\ request'[Worker].data.content = ""
    /\ request'[Worker].data.object \in PostUris

\* C27: a Like of a stored post in a user's outbox succeeds and returns the
\* payload; the post is in the user's liked relation, which keeps every like
\* it held; nobody else's likes change; and one Activity is stored, a Like of
\* that user for that post.
C27_LikeIsRecorded ==
    [][LikeServed =>
          LET u == request'[Worker].data.actor.n
              post == PostByUri(request'[Worker].data.object)
          IN /\ lastOp'[Worker].kind = "ok"
             /\ lastOp'[Worker].ret = "payload"
             /\ post.uuid \in Range(liked'[u])
             /\ \A x \in Range(liked[u]) : Count(liked'[u], x) >= Count(liked[u], x)
             /\ \A v \in Users \ {u} : liked'[v] = liked[v]
             /\ \E i \in NewRows :
                    /\ NewRows = {i}
                    /\ activities'[i].type = "Like"
                    /\ activities'[i].targetUser = u
                    /\ activities'[i].targetPost = post.uuid
                    /\ activities'[i].activityObject = request'[Worker].data]_vars

\* A user who had liked a post has liked another one: both are in the liked
\* relation.
C27_Witness ==
    /\ lastOp[Worker].op = "userOutbox"
    /\ lastOp[Worker].type = "Like"
    /\ lastOp[Worker].kind = "ok"
    /\ \E u \in LocalUsers :
           /\ Len(liked[u]) = 2
           /\ liked[u][1] # liked[u][2]
           /\ liked[u][2] = lastOp[Worker].subject

\* The payload but for its audience annotation.
WithoutAudience(payload) ==
    [payload EXCEPT !.audKind = "absent", !.audience = <<>>]

\* Row after is row before with, at most, more destination groups and more
\* audience.
OnlyGrown(before, after) ==
    /\ [after EXCEPT !.destinationGroups = <<>>, !.activityObject = NoPayload]
           = [before EXCEPT !.destinationGroups = <<>>, !.activityObject = NoPayload]
    /\ WithoutAudience(after.activityObject) = WithoutAudience(before.activityObject)
    /\ Range(before.destinationGroups) \subseteq Range(after.destinationGroups)
    /\ Range(before.activityObject.audience)
           \subseteq Range(after.activityObject.audience)

\* C28: no step changes a stored Activity but by adding to its
\* destinationGroups and to the audience of its stored payload; the type, the
\* issuer and every other field of the payload stay as they were stored.
C28_StoredActivityOnlyGrows ==
    [][\A i \in DOMAIN activities :
          /\ i \in DOMAIN activities'
          /\ OnlyGrown(activities[i], activities'[i])]_vars

\* C29: a request that fans an activity out to followers has not completed
\* before every delivery of the fan-out has settled, and its outcome is ok
\* only if none of them failed.
C29_CompletesAfterDeliveries ==
    \A h \in Handlers :
        (FannedOut(h) /\ lastOp[h].delivery.targets # {})
            => /\ lastOp[h].delivery.settled
               /\ lastOp[h].delivery.failed # {} => lastOp[h].kind # "ok"

\* The handler is about to look up the Follow of the Accept that the Follow
\* handling built and submitted to the group's own outbox dispatch.
SelfSubmitted(h) ==
    /\ pc[h] = "findRequest"
    /\ request[h].op = "inbox"

\* C30: whenever the Follow handling submits its Accept to the group's outbox
\* dispatch, the Follow the Accept names is stored and found by its uri, with
\* the follower as its issuer, so that the dispatch does not reject the Accept.
C30_SelfAcceptFindsItsFollow ==
    \A h \in Handlers :
        SelfSubmitted(h)
            => /\ findByUri(accept[h].object) # NoActivity
               /\ findByUri(accept[h].object).type = "Follow"
               /\ findByUri(accept[h].object).sourceUser = request[h].data.actor

\* Both handlers have served a Follow from user u to group g, and neither
\* found u among the followers it loaded: the two requests overlapped.
RacedFollows(g, u) ==
    \A h \in Handlers :
        /\ InboxDone(h)
        /\ lastOp[h].type = "Follow"
        /\ request[h].group = g
        /\ request[h].data.actor = UserUri(u)
        /\ ~lastOp[h].flag

\* C31: when two handlers have served overlapping Follows from user U to
\* group G, U is a follower of G, one Accept from G to U is stored and one
\* of the two requests has dispatched an Accept.
C31_RacedFollowsGiveOneAccept ==
    \A g \in Groups, u \in Users :
        RacedFollows(g, u)
            => /\ u \in followers[g]
               /\ Cardinality(SynthesizedAccepts(g, u)) = 1
               /\ Cardinality({h \in Handlers : lastOp[h].delivery.called}) = 1

\* C32: however the lookups and the creations of two handlers that find or
\* create the same remote actor interleave, the store holds one record for a
\* name on a remote server.
C32_OneRecordPerActor ==
    \A row, other \in groupRepository :
        (/\ row.server # LocalServer
         /\ row.name = other.name
         /\ row.server = other.server) => row = other

\* The names of the operations that create a user.
UserCreations ==
    {"UserService.create", "UserService.createEmptyUserEntry",
     "PostService.findOrCreateUser"}

DispatchOps == {"handleIncoming", "groupOutbox", "userOutbox"}

\* Handler h completes a dispatch with this step, and the dispatch failed
\* with BadRequest or NotImplemented.
Refuses(h) ==
    /\ pc'[h] = "idle"
    /\ <<lastOp'[h], request'[h]>> # <<lastOp[h], request[h]>>
    /\ lastOp'[h].op \in DispatchOps
    /\ lastOp'[h].kind \in {"BadRequest", "NotImplemented"}

\* C34: a dispatch that fails with BadRequest or NotImplemented fails in its
\* first step and leaves the activities, the posts, the followers and the
\* likes as they were.
C34_RefusedDispatchKeepsStore ==
    [][\A h \in Handlers :
          Refuses(h) => (pc[h] = "idle" /\ storeVars' = storeVars)]_vars

C34_Witness ==
    /\ pc[Worker] = "idle"
    /\ lastOp[Worker].op = "handleIncoming"
    /\ lastOp[Worker].kind = "BadRequest"
    /\ request[Worker].data.audKind = "scalar"
    /\ findByUri(request[Worker].data.id) # NoActivity
    /\ request[Worker].group \notin
           Range(findByUri(request[Worker].data.id).destinationGroups)
    /\ posts # {}

\* Handler h takes a step of a dispatch owned by a group: of the inbox or of
\* the outbox of the group.
GroupDispatchStep(h) ==
    /\ request'[h].op \in {"inbox", "outbox"}
    /\ <<pc'[h], request'[h], lastOp'[h], activityEntity'[h]>>
           # <<pc[h], request[h], lastOp[h], activityEntity[h]>>

\* No step of a group's dispatch creates a post, marks one deleted or records
\* a like; activities and followers are only added.
GroupEffects(h) ==
    /\ posts' = posts
    /\ nextUuid' = nextUuid
    /\ liked' = liked
    /\ Len(activities') >= Len(activities)
    /\ \A g \in Groups : followers[g] \subseteq followers'[g]

\* C35, as stated: a group's dispatch never touches posts or likes, and the
\* types it handles with an effect on the store are among those a user's
\* outbox handles with an effect.
C35_GroupTypesWithinUserTypes ==
    [][\A h \in Handlers :
          GroupDispatchStep(h)
              => /\ GroupEffects(h)
                 /\ storeVars' # storeVars
                        => request'[h].data.type \in UserEffectfulTypes]_vars

\* C35, amended: a group's dispatch never touches posts or likes; its effects
\* are activities and followers added, and only Create, Follow and Accept
\* have any.
C35_GroupNeverTouchesPosts ==
    [][\A h \in Handlers :
          GroupDispatchStep(h)
              => /\ GroupEffects(h)
                 /\ storeVars' # storeVars
                        => request'[h].data.type
                               \in {"Create", "Follow", "Accept"}]_vars

C35_Witness ==
    /\ InboxDone(Worker)
    /\ lastOp[Worker].type = "Follow"
    /\ lastOp[Worker].kind = "ok"
    /\ Cardinality(followers[request[Worker].group]) >= 1
    /\ SynthesizedAccepts(request[Worker].group, lastOp[Worker].subject) # {}
    /\ posts # {}

\* C36: no stored Activity has both a sourceUser and a sourceGroup.
C36_AtMostOneIssuer ==
    \A i \in DOMAIN activities :
        ~(activities[i].sourceUser # NoUri /\ activities[i].sourceGroup # 0)

C36_Witness ==
    /\ \E i \in DOMAIN activities :
           activities[i].sourceUser # NoUri /\ activities[i].sourceGroup = 0
    /\ \E i \in DOMAIN activities :
           activities[i].sourceUser = NoUri /\ activities[i].sourceGroup # 0
    /\ \E i \in DOMAIN activities :
           activities[i].sourceUser = NoUri /\ activities[i].targetUser # 0

\* The step just taken was PostService.softDelete called on post p.
SoftDeleteCalledOn(p) ==
    /\ lastOp'[Worker].op = "softDelete"
    /\ lastOp'[Worker].subject = p.uuid
    /\ lastOp'[Worker] # lastOp[Worker] \/ posts' # posts

\* C37: a post is soft-deleted exactly when the scheme, the host and the port
\* of its server are those of the local server; a post whose server differs
\* in any of them, a server without a port included, is refused.
C37_LocalIsTupleEquality ==
    [][\A p \in posts :
          SoftDeleteCalledOn(p)
              => /\ lastOp'[Worker].kind = "ok" <=> p.server = LocalServer
                 /\ lastOp'[Worker].kind = "BadRequest" <=> p.server # LocalServer
                 /\ p.server # LocalServer => posts' = posts]_vars

\* Handler h has completed the dispatch of an Accept whose delivery failed.
AcceptUndelivered(h) ==
    /\ pc[h] = "idle"
    /\ lastOp[h].op \in {"handleIncoming", "groupOutbox"}
    /\ lastOp[h].type \in {"Follow", "Accept"}
    /\ lastOp[h].delivery.called
    /\ lastOp[h].delivery.failed # {}

\* The Accepts stored for group g that name the target.
StoredAccepts(g, target) ==
    {i \in DOMAIN activities :
        /\ activities[i].type = "Accept"
        /\ activities[i].sourceGroup = g
        /\ activities[i].activityObject.target = target}

\* C38: when the delivery of an Accept fails, the dispatch fails, the Accept
\* saved before the delivery is stored, and the follower the Follow added is
\* a follower of the group.
C38_FailedAcceptStaysStored ==
    \A h \in Handlers :
        AcceptUndelivered(h)
            => /\ lastOp[h].kind # "ok"
               /\ lastOp[h].ret = ""
               /\ \A target \in lastOp[h].delivery.failed :
                      StoredAccepts(request[h].group, target) # {}
               /\ request[h].op = "inbox"
                      => request[h].data.actor.n \in followers[request[h].group]

C38_Witness ==
    /\ AcceptUndelivered(Worker)
    /\ request[Worker].op = "inbox"
    /\ lastOp[Worker].kind = "DeliveryError"
    /\ ~lastOp[Worker].flag
    /\ followers[request[Worker].group] = {request[Worker].data.actor.n}

\* C39: the Activity a handler brings to deliverToFollowers has a sourceUser,
\* and the Create a user's outbox stored has the submitting user as its
\* sourceUser.
C39_FannedOutActivityHasIssuer ==
    /\ \A h \in Handlers :
           pc[h] = "deliverToFollowers" => activityEntity[h].sourceUser # NoUri
    /\ \A i \in DOMAIN activities :
           (activities[i].type = "Create" /\ activities[i].targetUser # 0)
               => activities[i].sourceUser = UserUri(activities[i].targetUser)

\* The step just taken was a call of createFromActivity that failed on the
\* parent of the post.
ParentUnresolved ==
    /\ lastOp'[Worker].op = "createFromActivity"
    /\ lastOp'[Worker].kind # "ok"
    /\ lastOp'[Worker].flag
    /\ <<lastOp', userRepository', groupRepository'>>
           # <<lastOp, userRepository, groupRepository>>

\* C40: when createFromActivity fails because the parent of the post cannot
\* be resolved, no post is stored and no user or group made for the sender
\* or the groups of the post remains.
C40_FailedPostLeavesNoShadow ==
    [][ParentUnresolved =>
          /\ posts' = posts
          /\ userRepository' = userRepository
          /\ groupRepository' = groupRepository]_vars

============================================================================
